---- MODULE Spec2Model ----
(***************************************************************************)
(* Model of cmd2/mixins/rich.py: the Cmd2PrintProtocol capability set and  *)
(* the RichCmd mixin, composed with a host shell class as                  *)
(*     class App(RichCmd, Cmd)                                             *)
(* One instance of App is modelled: its construction, the ambient          *)
(* exception state, the two output channels and every print call.          *)
(* Method lookup follows Python: the C3 linearisation of the class graph,  *)
(* first class in the order that defines the name.                         *)
(***************************************************************************)
EXTENDS Integers, Sequences, FiniteSets

(* ------------------------------ bounds --------------------------------- *)
MaxLog   == 2          \* items a channel's log holds
MaxMsg   == 2          \* messages are 1..MaxMsg
MaxArg   == 1          \* constructor argument tuples are 1..MaxArg

Msgs     == 1..MaxMsg
CtorArgs == 1..MaxArg
Ends     == {"", "\n"}
Dests    == {"stdout", "stderr"}

(* --------------------------- class graph ------------------------------- *)
\* class statements: App(RichCmd, Cmd) as the NOTE of RichCmd prescribes,
\* RichCmd(Cmd2PrintProtocol), Cmd2PrintProtocol(Protocol); typing.Protocol
\* derives from Generic; the host Cmd from object.
Bases(c) ==
    CASE c = "App"               -> <<"RichCmd", "Cmd">>
      [] c = "RichCmd"           -> <<"Cmd2PrintProtocol">>
      [] c = "Cmd2PrintProtocol" -> <<"Protocol">>
      [] c = "Protocol"          -> <<"Generic">>
      [] c = "Generic"           -> <<"object">>
      [] c = "Cmd"               -> <<"object">>
      [] OTHER                   -> <<>>

CapabilityOps == {"print_to", "poutput", "perror", "psuccess", "pwarning",
             "pfailure", "pexcept", "pfeedback"}
OtherOps == CapabilityOps \ {"pexcept"}

\* the names each class body defines.  Cmd2PrintProtocol gets an __init__
\* from typing.Protocol (a protocol class's __init__ is replaced by a guard
\* that neither initialises nor chains).
Defines(c) ==
    CASE c = "RichCmd"           -> {"__init__", "pexcept"}
      [] c = "Cmd2PrintProtocol" -> CapabilityOps \cup {"__init__"}
      [] c = "Cmd"               -> CapabilityOps \cup {"__init__"}
      [] c = "object"            -> {"__init__"}
      [] OTHER                   -> {}

SeqToSet(s) == {s[i] : i \in 1..Len(s)}

\* C3 merge: repeatedly take the first head that is in no other tail
RECURSIVE Merge(_)
Merge(seqs) ==
    LET ne    == SelectSeq(seqs, LAMBDA s : Len(s) > 0)
        good(i) == \A j \in 1..Len(ne) : Head(ne[i]) \notin SeqToSet(Tail(ne[j]))
    IN  IF Len(ne) = 0 THEN <<>>
        ELSE LET cand == {i \in 1..Len(ne) : good(i)}
                 k    == CHOOSE i \in cand : \A j \in cand : i <= j
                 h    == Head(ne[k])
                 strip(s) == IF Head(s) = h THEN Tail(s) ELSE s
             IN  <<h>> \o Merge([i \in 1..Len(ne) |-> strip(ne[i])])

RECURSIVE Linearize(_)
Linearize(c) ==
    LET bs == Bases(c)
    IN  <<c>> \o Merge([i \in 1..Len(bs) |-> Linearize(bs[i])] \o <<bs>>)

MRO == Linearize("App")

IndexOf(s, c) == CHOOSE i \in 1..Len(s) : s[i] = c

\* first class at or after position from that defines the name
FirstDefining(name, from) ==
    LET idx == {i \in from..Len(MRO) : name \in Defines(MRO[i])}
    IN  MRO[CHOOSE i \in idx : \A j \in idx : i <= j]

Names == CapabilityOps \cup {"__init__"}

\* self.<name>
ResolveTable == [n \in Names |-> FirstDefining(n, 1)]
Resolve(name) == ResolveTable[name]

\* super(RichCmd, self).<name>
SuperTable == [n \in Names |-> FirstDefining(n, IndexOf(MRO, "RichCmd") + 1)]
Super(name) == SuperTable[name]

(* ------------------------- effects of a call --------------------------- *)
NoWrites == [d \in Dests |-> <<>>]

\* what one call did: the print-capability methods entered (chain), the
\* print_exception invocations on rendering sessions (excCalls), the items
\* written through rendering sessions (con) and directly to streams (raw),
\* whether sys.exc_info() was evaluated, the exception the rendering engine
\* raised inside the call (engine) and the one the caller saw (result)
Nothing ==
    [chain |-> <<>>, excCalls |-> <<>>, con |-> NoWrites, raw |-> NoWrites,
     probed |-> FALSE, engine |-> "none", result |-> "ok"]

Entry(cls, op, a) ==
    [cls |-> cls, op |-> op, msg |-> a.msg, end |-> a.end,
     apply_style |-> a.apply_style]

Item(text, style, end) == [text |-> text, style |-> style, end |-> end]

NoSession == [id |-> 0, dest |-> "none"]

(* --------------------------- rendering engine -------------------------- *)
\* Console.print_exception(show_locals=...) on a session: renders the active
\* exception on the session's channel; it raises when the channel is closed
\* and when the engine cannot format the exception
Console_print_exception(session, show_locals, env) ==
    LET call == [session |-> session.id, show_locals |-> show_locals]
        tb   == Item(0, IF show_locals THEN "traceback+locals" ELSE "traceback", "\n")
    IN  IF env.closed[session.dest]
        THEN [Nothing EXCEPT !.excCalls = <<call>>, !.engine = "BrokenChannelError",
                             !.result = "BrokenChannelError"]
        ELSE IF env.renderFails
        THEN [Nothing EXCEPT !.excCalls = <<call>>, !.engine = "RenderingFailure",
                             !.result = "RenderingFailure"]
        ELSE [Nothing EXCEPT !.excCalls = <<call>>,
                             !.con = [NoWrites EXCEPT ![session.dest] = <<tb>>]]

(* ------------------- Cmd2PrintProtocol: the stub bodies ---------------- *)
\* every method body of Cmd2PrintProtocol is a docstring only: the call is
\* entered and returns None without touching any stream
Cmd2PrintProtocol_op(op, a) ==
    [Nothing EXCEPT !.chain = <<Entry("Cmd2PrintProtocol", op, a)>>]

(* ------------------------- host implementations ------------------------ *)
\* channel and style each host operation uses
HostDest(op, a) ==
    CASE op = "print_to"               -> a.dest
      [] op \in {"poutput", "psuccess", "pfeedback"} -> "stdout"
      [] OTHER                         -> "stderr"

HostStyle(op, a) ==
    CASE op = "psuccess" -> "success"
      [] op = "pfailure" -> "failure"
      [] ~a.apply_style  -> "none"
      [] op = "print_to" -> "custom"
      [] op = "pwarning" -> "warning"
      [] op \in {"perror", "pexcept"} -> "error"
      [] OTHER           -> "output"

\* the host writes straight to its stream; a broken channel is swallowed
Cmd_op(op, a, self, env) ==
    LET d    == HostDest(op, a)
        body == IF op = "pexcept" /\ self.debug /\ env.exc
                THEN Item(0, "traceback", "\n")
                ELSE Item(a.msg, HostStyle(op, a), a.end)
        e    == [Nothing EXCEPT !.chain = <<Entry("Cmd", op, a)>>,
                                !.probed = (op = "pexcept" /\ self.debug)]
    IN  IF env.closed[d] THEN e
        ELSE [e EXCEPT !.raw = [NoWrites EXCEPT ![d] = <<body>>]]

\* a call bound to a class that follows RichCmd in the resolution order
InvokeBase(cls, op, a, self, env) ==
    IF cls = "Cmd" THEN Cmd_op(op, a, self, env)
    ELSE Cmd2PrintProtocol_op(op, a)

(* ------------------------------ RichCmd -------------------------------- *)
\* variant: the else is missing, the fallback runs after the traceback too
RichCmd_pexcept_NoElse(a, self, env) ==
    LET own == <<Entry("RichCmd", "pexcept", a)>>
        fb  == InvokeBase(Super("pexcept"), "pexcept", a, self, env)
    IN  IF self.debug /\ env.exc
        THEN LET r == Console_print_exception(self.rich_err, TRUE, env)
             IN  IF r.result # "ok" THEN [r EXCEPT !.chain = own, !.probed = TRUE]
                 ELSE [r EXCEPT !.chain = own \o fb.chain, !.probed = TRUE]
        ELSE [fb EXCEPT !.chain = own \o fb.chain, !.probed = self.debug]

\* variant: super().pexcept(msg), end and apply_style left at their defaults
RichCmd_pexcept_Defaults(a, self, env) ==
    LET own == <<Entry("RichCmd", "pexcept", a)>>
        b   == [a EXCEPT !.end = "\n", !.apply_style = TRUE]
    IN  IF self.debug /\ env.exc
        THEN LET r == Console_print_exception(self.rich_err, TRUE, env)
             IN  [r EXCEPT !.chain = own, !.probed = TRUE]
        ELSE LET r == InvokeBase(Super("pexcept"), "pexcept", b, self, env)
             IN  [r EXCEPT !.chain = own \o r.chain, !.probed = self.debug]

\* variant: the condition tests sys.exc_info() only
RichCmd_pexcept_NoDebugTest(a, self, env) ==
    LET own == <<Entry("RichCmd", "pexcept", a)>>
    IN  IF env.exc
        THEN LET r == Console_print_exception(self.rich_err, TRUE, env)
             IN  [r EXCEPT !.chain = own, !.probed = TRUE]
        ELSE LET r == InvokeBase(Super("pexcept"), "pexcept", a, self, env)
             IN  [r EXCEPT !.chain = own \o r.chain, !.probed = TRUE]

\* variant: the message is also printed through self.rich_out
RichCmd_pexcept_ToOut(a, self, env) ==
    LET own == <<Entry("RichCmd", "pexcept", a)>>
    IN  IF self.debug /\ env.exc
        THEN LET r == Console_print_exception(self.rich_err, TRUE, env)
             IN  [r EXCEPT !.chain = own, !.probed = TRUE]
        ELSE LET r == InvokeBase(Super("pexcept"), "pexcept", a, self, env)
                 w == IF env.closed[self.rich_out.dest] THEN <<>>
                      ELSE <<Item(a.msg, "none", a.end)>>
             IN  [r EXCEPT !.chain = own \o r.chain, !.probed = self.debug,
                           !.con[self.rich_out.dest] = w]

\* variant: a failure of print_exception is caught and the fallback runs
RichCmd_pexcept_Catch(a, self, env) ==
    LET own == <<Entry("RichCmd", "pexcept", a)>>
        fb  == InvokeBase(Super("pexcept"), "pexcept", a, self, env)
    IN  IF self.debug /\ env.exc
        THEN LET r == Console_print_exception(self.rich_err, TRUE, env)
             IN  IF r.result = "ok" THEN [r EXCEPT !.chain = own, !.probed = TRUE]
                 ELSE [fb EXCEPT !.chain = own \o fb.chain, !.probed = TRUE,
                                 !.excCalls = r.excCalls, !.engine = r.engine]
        ELSE [fb EXCEPT !.chain = own \o fb.chain, !.probed = self.debug]

\* RichCmd.pexcept
\*   if self.debug and sys.exc_info() != (None, None, None):
\*       self.rich_err.print_exception(show_locals=True)
\*   else:
\*       super().pexcept(msg, end=end, apply_style=apply_style)
\* `and` short-circuits: sys.exc_info() is evaluated only when debug is true
RichCmd_pexcept(a, self, env) ==
    LET own == <<Entry("RichCmd", "pexcept", a)>>
    IN  IF self.debug /\ env.exc
        THEN LET r == Console_print_exception(self.rich_err, TRUE, env)
             IN  [r EXCEPT !.chain = own, !.probed = TRUE]
        ELSE LET r == InvokeBase(Super("pexcept"), "pexcept", a, self, env)
             IN  [r EXCEPT !.chain = own \o r.chain, !.probed = self.debug]

\* self.<op>(...) on the instance
Invoke(op, a, self, env) ==
    IF Resolve(op) = "RichCmd" THEN RichCmd_pexcept(a, self, env)
    ELSE InvokeBase(Resolve(op), op, a, self, env)

(* ---------------------------- construction ----------------------------- *)
NewSelf ==
    [hostInit |-> FALSE, hostArgs |-> 0, stdout |-> "unset", debug |-> FALSE,
     rich_out |-> NoSession, rich_err |-> NoSession]

Ev(ev, cls, args, dest) == [ev |-> ev, cls |-> cls, args |-> args, dest |-> dest]

\* the host's initializer: opens the instance's stdout handle, debug off
Cmd_init(self, args) ==
    [self EXCEPT !.hostInit = TRUE, !.hostArgs = args,
                 !.stdout = "host_stdout", !.debug = FALSE]

\* <cls>.__init__(self, *args): only the host's initializer sets anything;
\* the __init__ typing.Protocol installs on Cmd2PrintProtocol returns at
\* once, and object.__init__ does nothing
InitOf(cls, self, args) ==
    IF cls = "Cmd" THEN Cmd_init(self, args) ELSE self

\* Console(file=self.stdout) / Console(stderr=True)
Console(id, dest) == [id |-> id, dest |-> dest]

\* variant: self.rich_err = Console(file=self.stdout)
RichCmd_init_BothOut(self, args) ==
    LET nxt == Super("__init__")
        s1  == InitOf(nxt, self, args)
        e0  == <<Ev("enter", "RichCmd", args, "none"), Ev("init", nxt, args, "none")>>
    IN  IF s1.stdout = "unset"
        THEN [self |-> s1, log |-> e0, made |-> {}, result |-> "AttributeError"]
        ELSE LET o == Console(1, "stdout")
                 e == Console(2, "stdout")
             IN  [self   |-> [s1 EXCEPT !.rich_out = o, !.rich_err = e],
                  log    |-> e0 \o <<Ev("console", "RichCmd", args, o.dest),
                                     Ev("console", "RichCmd", args, e.dest)>>,
                  made   |-> {o, e},
                  result |-> "ok"]

\* RichCmd.__init__
\*   super(RichCmd, self).__init__(*args, **kwargs)
\*   self.rich_out = Console(file=self.stdout)
\*   self.rich_err = Console(stderr=True)
\* reading self.stdout raises AttributeError when nothing has set it
RichCmd_init(self, args) ==
    LET nxt == Super("__init__")
        s1  == InitOf(nxt, self, args)
        e0  == <<Ev("enter", "RichCmd", args, "none"), Ev("init", nxt, args, "none")>>
    IN  IF s1.stdout = "unset"
        THEN [self |-> s1, log |-> e0, made |-> {}, result |-> "AttributeError"]
        ELSE LET o == Console(1, "stdout")
                 e == Console(2, "stderr")
             IN  [self   |-> [s1 EXCEPT !.rich_out = o, !.rich_err = e],
                  log    |-> e0 \o <<Ev("console", "RichCmd", args, o.dest),
                                     Ev("console", "RichCmd", args, e.dest)>>,
                  made   |-> {o, e},
                  result |-> "ok"]

(* ------------------------------- state --------------------------------- *)
VARIABLES
    appInit,    \* how the application class constructs: "inherited" (App has
                \* no __init__, App(...) runs RichCmd.__init__) or "explicit"
                \* (App.__init__ runs Cmd.__init__ then RichCmd.__init__)
    pc,         \* "new", "ready" (constructed), "failed" (constructor raised)
    self,       \* the instance's attributes
    ctorLog,    \* what the constructor did, in order
    sessions,   \* every rendering session created so far
    excActive,  \* sys.exc_info() != (None, None, None)
    closed,     \* per channel: the stream is closed / its pipe is broken
    conLog,     \* per channel: items written through a rendering session
    rawLog,     \* per channel: items written directly to the stream
    last        \* the print call that has just returned and what it did;
                \* NoCall once anything else has happened

vars == <<appInit, pc, self, ctorLog, sessions, excActive, closed, conLog,
          rawLog, last>>

NoCall ==
    [op |-> "none", msg |-> 0, end |-> "", apply_style |-> FALSE,
     dest |-> "none", impl |-> "none", eff |-> Nothing]

Init ==
    /\ appInit \in {"inherited", "explicit"}
    /\ pc = "new"
    /\ self = NewSelf
    /\ ctorLog = <<>>
    /\ sessions = {}
    /\ excActive = FALSE
    /\ closed = [d \in Dests |-> FALSE]
    /\ conLog = NoWrites
    /\ rawLog = NoWrites
    /\ last = NoCall

\* App(*args)
Construct ==
    /\ pc = "new"
    /\ \E args \in CtorArgs :
         LET pre    == IF appInit = "explicit" THEN Cmd_init(NewSelf, args) ELSE NewSelf
             preLog == IF appInit = "explicit"
                       THEN <<Ev("init", "Cmd", args, "none")>> ELSE <<>>
             r      == RichCmd_init(pre, args)
         IN  /\ self' = r.self
             /\ ctorLog' = preLog \o r.log
             /\ sessions' = sessions \cup r.made
             /\ pc' = IF r.result = "ok" THEN "ready" ELSE "failed"
    /\ UNCHANGED <<appInit, excActive, closed, conLog, rawLog, last>>

\* the application sets the host's debug attribute
SetDebug ==
    /\ pc = "ready"
    /\ \E b \in BOOLEAN : b # self.debug /\ self' = [self EXCEPT !.debug = b]
    /\ last' = NoCall
    /\ UNCHANGED <<appInit, pc, ctorLog, sessions, excActive, closed, conLog, rawLog>>

\* control enters an except block
EnterExcept ==
    /\ pc = "ready"
    /\ ~excActive
    /\ excActive' = TRUE
    /\ last' = NoCall
    /\ UNCHANGED <<appInit, pc, self, ctorLog, sessions, closed, conLog, rawLog>>

\* control leaves the except block
LeaveExcept ==
    /\ pc = "ready"
    /\ excActive
    /\ excActive' = FALSE
    /\ last' = NoCall
    /\ UNCHANGED <<appInit, pc, self, ctorLog, sessions, closed, conLog, rawLog>>

\* the consumer of a stream goes away
CloseStream ==
    /\ pc = "ready"
    /\ \E d \in Dests : ~closed[d] /\ closed' = [closed EXCEPT ![d] = TRUE]
    /\ last' = NoCall
    /\ UNCHANGED <<appInit, pc, self, ctorLog, sessions, excActive, conLog, rawLog>>

\* self.<op>(msg, end=end, apply_style=apply_style) on the constructed instance
Call(op, a, fails) ==
    LET env == [exc |-> excActive, closed |-> closed, renderFails |-> fails]
        eff == Invoke(op, a, self, env)
    IN  /\ pc = "ready"
        /\ \A d \in Dests : /\ Len(conLog[d]) + Len(eff.con[d]) <= MaxLog
                            /\ Len(rawLog[d]) + Len(eff.raw[d]) <= MaxLog
        /\ conLog' = [d \in Dests |-> conLog[d] \o eff.con[d]]
        /\ rawLog' = [d \in Dests |-> rawLog[d] \o eff.raw[d]]
        /\ last' = [op |-> op, msg |-> a.msg, end |-> a.end,
                    apply_style |-> a.apply_style, dest |-> a.dest,
                    impl |-> Resolve(op), eff |-> eff]
        /\ UNCHANGED <<appInit, pc, self, ctorLog, sessions, excActive, closed>>

Args(m, e, s, d) == [msg |-> m, end |-> e, apply_style |-> s, dest |-> d]

Pexcept ==
    \E m \in Msgs, e \in Ends, s \in BOOLEAN, fails \in BOOLEAN :
        Call("pexcept", Args(m, e, s, "stderr"), fails)

Print_to ==
    \E d \in Dests, m \in Msgs, e \in Ends, s \in BOOLEAN :
        Call("print_to", Args(m, e, s, d), FALSE)

\* psuccess and pfailure take no apply_style: their style is always applied
StyleFlags(op) == IF op \in {"psuccess", "pfailure"} THEN {TRUE} ELSE BOOLEAN

POther ==
    \E op \in OtherOps \ {"print_to"}, m \in Msgs, e \in Ends :
        \E s \in StyleFlags(op) :
            Call(op, Args(m, e, s, HostDest(op, [dest |-> "none"])), FALSE)

Next ==
    \/ Construct
    \/ SetDebug
    \/ EnterExcept
    \/ LeaveExcept
    \/ CloseStream
    \/ Pexcept
    \/ Print_to
    \/ POther

Spec == Init /\ [][Next]_vars

(* ------------------------------ properties ----------------------------- *)
Own        == Entry("RichCmd", "pexcept", last)
DebugPath  == last.op = "pexcept" /\ self.debug /\ excActive
Fallback   == last.op = "pexcept" /\ ~(self.debug /\ excActive)
NoOutput(e) == e.con = NoWrites /\ e.raw = NoWrites
IsTraceback(it) == it.style \in {"traceback", "traceback+locals"}
Tracebacks(log) == Len(SelectSeq(log, IsTraceback))

\* C1: a pexcept call made with debug true and an exception active invokes
\* print_exception(show_locals=True) of the error-bound session exactly once,
\* enters no next-in-chain pexcept and writes nothing through the
\* stdout-bound session
C1_DebugPathDelegates ==
    DebugPath =>
        /\ self.rich_err.dest = "stderr"
        /\ last.eff.excCalls = <<[session |-> self.rich_err.id, show_locals |-> TRUE]>>
        /\ last.eff.chain = <<Own>>
        /\ last.eff.con["stdout"] = <<>>
        /\ last.eff.raw = NoWrites

C1_Witness ==
    DebugPath /\ last.eff.result = "ok" /\ last.eff.con["stderr"] # <<>>

\* C2: a pexcept call made when debug-and-exception-active does not hold
\* enters the next-in-chain pexcept exactly once, with the same msg, end and
\* apply_style, and the error-bound session renders no traceback
C2_FallbackPassesThrough ==
    Fallback =>
        /\ Len(last.eff.chain) = 2
        /\ last.eff.chain[1] = Own
        /\ last.eff.chain[2] = Entry(Super("pexcept"), "pexcept", last)
        /\ last.eff.excCalls = <<>>
        /\ \A d \in Dests : Tracebacks(last.eff.con[d]) = 0

C2_Witness ==
    /\ Fallback /\ self.debug /\ ~excActive
    /\ last.end = "" /\ ~last.apply_style
    /\ last.eff.result = "ok"

\* C3: while debug is false a pexcept call never evaluates sys.exc_info()
\* and never invokes print_exception, whether or not an exception is active,
\* and no step taken with debug false adds a traceback to any session
C3_NoDebugNoTraceback ==
    /\ [](last.op = "pexcept" /\ ~self.debug =>
             /\ ~last.eff.probed
             /\ last.eff.excCalls = <<>>
             /\ \A d \in Dests : Tracebacks(last.eff.con[d]) = 0)
    /\ [][(~self.debug /\ ~self'.debug) =>
             \A d \in Dests : Tracebacks(conLog'[d]) = Tracebacks(conLog[d])]_vars

C3_Witness ==
    last.op = "pexcept" /\ ~self.debug /\ excActive /\ last.eff.result = "ok"

\* C4: every capability operation other than pexcept, and the fallback
\* reached from RichCmd.pexcept, runs the host's (Cmd's) implementation
C4_ResolvesToHost ==
    /\ last.op \in OtherOps =>
          /\ last.impl = "Cmd"
          /\ last.eff.chain = <<Entry("Cmd", last.op, last)>>
    /\ Fallback =>
          /\ Len(last.eff.chain) = 2
          /\ last.eff.chain[2].cls = "Cmd"

ErrorOps == {"perror", "pwarning", "pfailure"}

\* C5: perror, pwarning, pfailure and pexcept on the path that renders no
\* traceback write nothing through the stdout-bound session and nothing to
\* the host's standard-output stream
C5_ErrorOpsKeepOffStdout ==
    (last.op \in ErrorOps \/ Fallback) =>
        /\ last.eff.con["stdout"] = <<>>
        /\ last.eff.raw["stdout"] = <<>>

C5_Witness ==
    /\ Fallback /\ ~self.debug /\ ~excActive
    /\ ~closed["stdout"] /\ ~closed["stderr"]

\* C6: poutput(m, end=e) writes exactly style(m) + e (m + e when apply_style
\* is false) through the stdout-bound session and nothing through the
\* error-bound session
C6_PoutputWritesStyled ==
    (last.op = "poutput" /\ ~closed["stdout"]) =>
        /\ last.eff.con["stdout"] =
              <<Item(last.msg, IF last.apply_style THEN "output" ELSE "none", last.end)>>
        /\ last.eff.con["stderr"] = <<>>

\* C7: a print call made while its destination stream is closed returns
\* normally and produces no output on any stream
C7_BrokenPipeRecovered ==
    (last.op # "none" /\ closed[last.dest]) =>
        /\ last.eff.result = "ok"
        /\ NoOutput(last.eff)

\* C8: when the error-bound session cannot format the active exception the
\* failure reaches the caller of pexcept unchanged and no next-in-chain
\* pexcept is entered
C8_RenderingFailurePropagates ==
    (last.op = "pexcept" /\ last.eff.engine = "RenderingFailure") =>
        /\ last.eff.result = "RenderingFailure"
        /\ last.eff.chain = <<Own>>
        /\ NoOutput(last.eff)

C8_Witness ==
    DebugPath /\ last.eff.engine = "RenderingFailure" /\ last.eff.result # "ok"

ConsoleEvents == SelectSeq(ctorLog, LAMBDA e : e.ev = "console")

\* C9: RichCmd.__init__ forwards its arguments to the host's initializer,
\* which completes before the two sessions are created, the first bound to
\* the host's stdout stream and the second to the error channel
C9_HostInitFirst ==
    pc # "new" =>
        \E i \in 1..Len(ctorLog) :
            /\ ctorLog[i].ev = "enter"
            /\ Len(ctorLog) = i + 3
            /\ ctorLog[i + 1] = Ev("init", "Cmd", ctorLog[i].args, "none")
            /\ ctorLog[i + 2] = Ev("console", "RichCmd", ctorLog[i].args, "stdout")
            /\ ctorLog[i + 3] = Ev("console", "RichCmd", ctorLog[i].args, "stderr")
            /\ self.hostArgs = ctorLog[i].args
            /\ self.stdout = "host_stdout"

\* C10: once construction has completed there is exactly one session bound
\* to standard output and exactly one bound to error output, they are the
\* two the constructor created, and no step creates or replaces a session
C10_SessionsFixed ==
    /\ [](pc = "ready" =>
             /\ {s \in sessions : s.dest = "stdout"} = {self.rich_out}
             /\ {s \in sessions : s.dest = "stderr"} = {self.rich_err}
             /\ Len(ConsoleEvents) = 2)
    /\ [][pc = "ready" =>
             /\ sessions' = sessions
             /\ self'.rich_out = self.rich_out
             /\ self'.rich_err = self.rich_err
             /\ pc' = "ready"]_vars

C10_Witness ==
    pc = "ready" /\ conLog["stderr"] # <<>> /\ last.op = "poutput"

====
